---- MODULE Spec2Model ----
(***************************************************************************)
(* Model of telemetry.py: the opt-out census client.  Identity store,      *)
(* policy resolver, transport and the background scheduler.                *)
(*                                                                         *)
(* Strings are sequences of one-character strings so that strip() and      *)
(* lower() are computed, not assumed.  An environment variable is a record *)
(* [some, str]: some = FALSE is os.getenv(...) returning None.             *)
(***************************************************************************)
EXTENDS Integers, Sequences, FiniteSets, TLC

VARIABLES
  env,                  \* os.environ: the variables the module reads
  file,                 \* the state file: [exists, content]
  HAS_SCHEDULED_SEND,   \* module global _HAS_SCHEDULED_SEND
  HAS_LOGGED_SCHEDULE,  \* module global _HAS_LOGGED_SCHEDULE
  tasks,                \* asyncio tasks of this process, in creation order
  lastCall,             \* the most recent invocation of _post_sync
  startCalls,           \* calls of maybe_send_telemetry_background in this process
  allRunning,           \* every such call so far found a running event loop
  bgOutcome,            \* how the last maybe_send_telemetry_background call ended
  bgAccessible,         \* no read or write step could fail during the first such call
  fileWasAbsent,        \* the state file was absent initially
  fsEverFailed,         \* some _ensure_instance_id call ran under a filesystem fault
  writes,               \* completed writes of the state file (saturating at WriteCap)
  firstRet,             \* first value returned by _ensure_instance_id (<<>>: no call yet)
  lastRet,              \* last value returned by _ensure_instance_id
  retsDiffer,           \* some call returned a value other than firstRet
  scheduled,            \* how many tasks of each kind ensure_future has created
  now,                  \* input of _seconds_until_next_even_utc_hour (ticks since 00:00 UTC)
  sleep_s,              \* its result in ticks (-1: not computed)
  optOut,               \* result of _env_opt_out: "unset", "out" or "in"
  ensureCalls,          \* direct calls of _ensure_instance_id made so far
  lastFailed,           \* the filesystem step that failed in the last such call
  procs,                \* processes inside _ensure_instance_id on the one state path
  today,                \* the UTC date, as a day of January 2024
  sent,                 \* the calls _post_sync(url, data) that issued a POST
  clock,                \* the time, in ticks since a midnight UTC
  lp,                   \* _periodic_ping_loop on that clock: [pc, wakeAt]
  jobs,                 \* the executor jobs of the startup send and of the loop
  errs,                 \* unexpected errors raised in the loop so far
  skipped,              \* some wake of the loop found the opt-out set
  lastTarget            \* boundary of the last sleep the loop woke from (-1: none)

idVars == <<file, fsEverFailed, writes, firstRet, lastRet, retsDiffer>>

\* what only maybe_send_telemetry_background and a restart change
ctlVars == <<HAS_SCHEDULED_SEND, HAS_LOGGED_SCHEDULE, startCalls, allRunning,
             bgOutcome, bgAccessible, scheduled>>

procVars == <<ctlVars, tasks, lastCall>>

\* inputs and results of the payload builder
payVars == <<today, sent>>

\* the periodic loop on a clock
loopVars == <<clock, lp, jobs, errs, skipped, lastTarget>>

auxVars == <<lastFailed, procs, payVars, loopVars>>

otherVars == <<fileWasAbsent, now, sleep_s, optOut, ensureCalls, auxVars>>

vars == <<env, idVars, procVars, otherVars>>

(***************************************************************************)
(* Bounds                                                                  *)
(***************************************************************************)
MaxCalls == 2
NumUuids == 4
WriteCap == 2
TicksPerSec == 2
MaxEnsureCalls == 6
MaxSends == 2
MaxErrs == 1
NumProcs == 2
MaxDay == 2

(***************************************************************************)
(* Strings                                                                 *)
(***************************************************************************)
Absent == [some |-> FALSE, str |-> <<>>]
Str(s) == [some |-> TRUE, str |-> s]

Whitespace == {" ", "\n", "\t"}

UpperOf == [c \in {"A", "E", "F", "L", "N", "O", "R", "S", "T", "U", "Y"} |->
              CASE c = "A" -> "a" [] c = "E" -> "e" [] c = "F" -> "f"
                [] c = "L" -> "l" [] c = "N" -> "n" [] c = "O" -> "o"
                [] c = "R" -> "r" [] c = "S" -> "s" [] c = "T" -> "t"
                [] c = "U" -> "u" [] c = "Y" -> "y"]

LowerChar(c) == IF c \in DOMAIN UpperOf THEN UpperOf[c] ELSE c

Lower(s) == [i \in 1..Len(s) |-> LowerChar(s[i])]

RECURSIVE LStrip(_)
LStrip(s) == IF s # <<>> /\ Head(s) \in Whitespace THEN LStrip(Tail(s)) ELSE s

RECURSIVE RStrip(_)
RStrip(s) == IF s # <<>> /\ s[Len(s)] \in Whitespace
             THEN RStrip(SubSeq(s, 1, Len(s) - 1)) ELSE s

Strip(s) == RStrip(LStrip(s))

(***************************************************************************)
(* Policy resolver                                                         *)
(***************************************************************************)
TruthyTokens == {<<"1">>, <<"t", "r", "u", "e">>, <<"y", "e", "s">>,
                 <<"o", "n">>, <<"y">>, <<"t">>}

FalsyTokens == {<<"0">>, <<"f", "a", "l", "s", "e">>, <<"n", "o">>,
                <<"o", "f", "f">>, <<"n">>, <<"f">>}

\* (v or ""): None and "" both become ""
OrEmpty(v) == IF v.some THEN v.str ELSE <<>>

env_truthy(v) == Lower(Strip(OrEmpty(v))) \in TruthyTokens

env_falsy(v) == Lower(Strip(OrEmpty(v))) \in FalsyTokens

env_opt_out_flipped(e) ==
  IF env_truthy(e.optout) \/ env_truthy(e.genOptout) THEN TRUE
  ELSE IF e.telemetry.some /\ env_truthy(e.telemetry) THEN TRUE
  ELSE FALSE

env_opt_out(e) ==
  IF env_truthy(e.optout) \/ env_truthy(e.genOptout) THEN TRUE
  ELSE IF e.telemetry.some /\ env_falsy(e.telemetry) THEN TRUE
  ELSE FALSE

DEFAULT_ENDPOINT == <<"https", ":", "//telemetry.namelessnanashi.dev/census">>

PROJECT_NAME == <<"<PROJECT_NAME>">>

\* os.getenv("TELEMETRY_ENDPOINT") or _DEFAULT_ENDPOINT: None and "" are both falsy
get_endpoint(e) ==
  IF e.endpoint.some /\ e.endpoint.str # <<>> THEN e.endpoint.str
  ELSE DEFAULT_ENDPOINT

get_project_name == PROJECT_NAME


(***************************************************************************)
(* Identity store                                                          *)
(***************************************************************************)
Digits == <<"1", "2", "3", "4", "5", "6", "7", "8", "9">>

UuidOf(n) == <<"u", Digits[n]>>

\* str(uuid.uuid4()): a value different from every identifier in `known`
uuid4(known) ==
  UuidOf(CHOOSE n \in 1..NumUuids :
           /\ UuidOf(n) \notin known
           /\ \A m \in 1..(n - 1) : UuidOf(m) \in known)

\* The step of _ensure_instance_id that fails, if the call executes it:
\*   "exists"   os.stat fails inside os.path.exists, which then answers False
\*   "open_r"   open(path, "r") raises
\*   "read"     fh.read() raises
\*   "makedirs" os.makedirs raises (caught at line 103)
\*   "open_w"   open(path, "w") raises, the file is left as it was
\*   "write"    fh.write raises after open has truncated or created the file
\*   "flush"    the flush made by the close raises, nothing reached the file
\*   "close"    the close raises after the identifier reached the file
FsFaults == {"none", "exists", "open_r", "read", "makedirs", "open_w", "write",
             "flush", "close"}

\* the faults injected in runs of the scheduler
SchedFaults == {"none", "read", "makedirs", "open_w", "write"}

NoFile == [exists |-> FALSE, content |-> <<>>]

Ensured(f, ret, wrote, failed) ==
  [file |-> f, ret |-> ret, wrote |-> wrote, failed |-> failed]

\* the second str(uuid.uuid4()), of the except branch (line 122)
ephemeral_id(known, new) == uuid4(known \cup {new})

\* Result of one call on file state f; `fault` is the step that fails if the
\* call executes it.
ensure_never_persists(f, fault, known) ==
  LET raw == Strip(f.content)
      new == uuid4(known)
  IN  IF f.exists /\ raw # <<>>
      THEN Ensured(f, raw, FALSE, "none")
      ELSE Ensured(f, new, FALSE, "none")

ensure_instance_id(f, fault, known) ==
  LET raw == Strip(f.content)
      new == uuid4(known)
      eph == ephemeral_id(known, new)
      seen == f.exists /\ fault # "exists"
      written == [exists |-> TRUE, content |-> new]
      emptied == [exists |-> TRUE, content |-> <<>>]
  IN  IF seen /\ fault \in {"open_r", "read"}
      THEN Ensured(f, eph, FALSE, fault)
      ELSE IF seen /\ raw # <<>>
      THEN Ensured(f, raw, FALSE, "none")
      ELSE IF fault = "open_w"
      THEN Ensured(f, eph, FALSE, fault)
      ELSE IF fault \in {"write", "flush"}
      THEN Ensured(emptied, eph, FALSE, fault)
      ELSE IF fault = "close"
      THEN Ensured(written, eph, FALSE, fault)
      ELSE Ensured(written, new, TRUE,
                   IF fault \in {"exists", "makedirs"} THEN fault ELSE "none")

\* a process outside _ensure_instance_id; id is the local `new` while the
\* call runs and the value returned once it is done
IdleProc == [pc |-> "idle", id |-> <<>>]

KnownIds(f, last) == {Strip(f.content), last}

\* _make_payload: its only side effect is the _ensure_instance_id call
make_payload(f, fault, last) == ensure_instance_id(f, fault, KnownIds(f, last))

(***************************************************************************)
(* Payload builder                                                         *)
(***************************************************************************)
HexDigits == <<"0", "1", "2", "3", "4", "5", "6", "7", "8", "9",
               "a", "b", "c", "d", "e", "f">>

\* raw.encode("utf-8"): the code of a character of an identifier
CharCode(c) ==
  CASE c = "u" -> 117 [] c = "1" -> 49 [] c = "2" -> 50 [] c = "3" -> 51
    [] c = "4" -> 52 [] c = "5" -> 53 [] c = "6" -> 54 [] c = "7" -> 55
    [] c = "8" -> 56 [] c = "9" -> 57 [] OTHER -> 0

RECURSIVE Absorb(_, _)
Absorb(s, h) ==
  IF s = <<>> THEN h
  ELSE Absorb(Tail(s), (h * 31 + CharCode(Head(s))) % 65536)

\* _hash_id: SHA-256 is stood for by a 16-bit digest of the bytes, rendered as
\* lowercase hex digits like hexdigest().  An identifier carries a character
\* that is no hex digit (the "u" here, the hyphens of a UUID).
hash_id(raw) ==
  LET h == Absorb(raw, 7)
  IN  <<HexDigits[((h \div 4096) % 16) + 1], HexDigits[((h \div 256) % 16) + 1],
        HexDigits[((h \div 16) % 16) + 1], HexDigits[(h % 16) + 1]>>

\* datetime.now(timezone.utc).strftime("%Y-%m-%d") on day d of January 2024
strftime(d) == <<"2", "0", "2", "4", "-", "0", "1", "-", "0", Digits[d]>>

\* the dict of lines 145-151, given the identifier _ensure_instance_id returned
payload_raw_id(rid, d) ==
  [id |-> rid, date |-> strftime(d), projectname |-> get_project_name,
   project |-> get_project_name, count |-> 1]

payload_fields(rid, d) ==
  [id |-> hash_id(rid), date |-> strftime(d), projectname |-> get_project_name,
   project |-> get_project_name, count |-> 1]

Quote(str) == <<"\"">> \o str \o <<"\"">>

\* json.dumps of the payload: keys in insertion order, strings quoted, the
\* integer count in decimal
json_dumps(p, item_separator, key_separator) ==
  <<"{">> \o Quote(<<"id">>) \o key_separator \o Quote(p.id)
    \o item_separator \o Quote(<<"date">>) \o key_separator \o Quote(p.date)
    \o item_separator \o Quote(<<"projectname">>) \o key_separator
    \o Quote(p.projectname)
    \o item_separator \o Quote(<<"project">>) \o key_separator
    \o Quote(p.project)
    \o item_separator \o Quote(<<"count">>) \o key_separator
    \o <<Digits[p.count]>>
    \o <<"}">>

\* line 202: json.dumps(payload, separators=(",", ":"))
async_body(p) == json_dumps(p, <<",">>, <<":">>)

\* line 296: json.dumps(payload), with json's default separators
fallback_body(p) == json_dumps(p, <<",", " ">>, <<":", " ">>)

\* one call _post_sync(url, data) that reached urlopen, with the dict and the
\* identifier the data was built from
Posted(path, url, data, p, rid, d) ==
  [path |-> path, url |-> url, data |-> data, fields |-> p, rid |-> rid,
   day |-> d]

(***************************************************************************)
(* Transport                                                               *)
(***************************************************************************)
\* how urlopen ends: a response; URLError (refused, DNS, HTTPError for a non-2xx
\* status); a timeout; any other exception
TransportOutcomes == {"ok", "url_error", "timeout", "other"}

\* urllib.request.Request(url): ValueError "unknown url type" without a scheme
HasScheme(url) == Len(url) >= 2 /\ url[2] = ":"

SupportedScheme(url) == HasScheme(url) /\ url[1] \in {"http", "https"}

\* every exception of urlopen is caught: the call returns whatever the outcome
post_sync_finish(outcome) == "returned"

\* [raised, attempts]: the Request constructor is outside the try block
post_sync(url) ==
  IF ~HasScheme(url) THEN [raised |-> TRUE, attempts |-> 0]
  ELSE IF ~SupportedScheme(url) THEN [raised |-> FALSE, attempts |-> 0]
  ELSE [raised |-> FALSE, attempts |-> 1]

\* the ways a complete synchronous call _post_sync(url, data) can end
PostSyncResults(url) ==
  IF post_sync(url).raised THEN {"raised"}
  ELSE {post_sync_finish(o) : o \in TransportOutcomes}

NoCall == [called |-> FALSE, thread |-> "none", raised |-> FALSE,
           attempts |-> 0]

OverrideEmpty(e) == e.endpoint.some /\ e.endpoint.str = <<>>

(***************************************************************************)
(* sendOnce: maybe_send_telemetry_async up to its await                    *)
(***************************************************************************)
NoJob == [state |-> "none", url |-> <<>>]

\* the gate of lines 170 and 191: TRUE when the report is skipped
send_skips(e) ==
  get_endpoint(e) = <<>> \/ env_opt_out(e) \/ get_project_name = <<>>

\* the job handed to run_in_executor
Dispatch(e) == [state |-> "queued", url |-> get_endpoint(e)]

\* try/except Exception around the await (lines 203-211)
await_outcome_uncaught(jobState) ==
  IF jobState = "raised" THEN "raised" ELSE "returned"

await_outcome(jobState) == "returned"


(***************************************************************************)
(* Bookkeeping of _ensure_instance_id calls made by one step, in order     *)
(***************************************************************************)
Min(a, b) == IF a < b THEN a ELSE b

Max(a, b) == IF a > b THEN a ELSE b

RecordEnsure(rs, fs) ==
  LET first == IF firstRet = <<>> THEN rs[1].ret ELSE firstRet
  IN  /\ file' = rs[Len(rs)].file
      /\ writes' = Min(WriteCap,
                       writes + Cardinality({k \in 1..Len(rs) : rs[k].wrote}))
      /\ firstRet' = first
      /\ lastRet' = rs[Len(rs)].ret
      /\ retsDiffer' = (retsDiffer \/ \E k \in 1..Len(rs) : rs[k].ret # first)
      /\ fsEverFailed' = (fsEverFailed \/ \E k \in 1..Len(fs) : fs[k] # "none")
      /\ lastFailed' = rs[Len(rs)].failed

\* the scheduler's steps: the file changes, the call history is not kept
RecordFile(rs) ==
  /\ file' = rs[Len(rs)].file
  /\ UNCHANGED <<fsEverFailed, writes, firstRet, lastRet, retsDiffer>>

(***************************************************************************)
(* Tasks                                                                   *)
(***************************************************************************)
NewTask(kind) == [kind |-> kind, pc |-> "pending", job |-> NoJob]

NoneScheduled == [startup |-> 0, loop |-> 0]

RemoveAt(ts, i) == SubSeq(ts, 1, i - 1) \o SubSeq(ts, i + 1, Len(ts))

\* task i moves to pc with no job; a send coroutine that returned is forgotten
\* by the event loop, the loop task and a task that raised are kept
SetPc(ts, i, pc) ==
  IF ts[i].kind # "loop" /\ pc = "returned" THEN RemoveAt(ts, i)
  ELSE [ts EXCEPT ![i].pc = pc, ![i].job = NoJob]

CountKind(kind) == Cardinality({i \in 1..Len(tasks) : tasks[i].kind = kind})

\* maybe_send_telemetry_async run by task i up to its await; donePc is where
\* the task goes when the coroutine returns without awaiting
SendOnce(i, donePc, fault) ==
  IF send_skips(env)
  THEN /\ tasks' = SetPc(tasks, i, donePc)
       /\ UNCHANGED idVars
  ELSE /\ tasks' = [tasks EXCEPT ![i].pc = "awaiting", ![i].job = Dispatch(env)]
       /\ RecordFile(<<make_payload(file, fault, lastRet)>>)


(***************************************************************************)
(* maybe_send_telemetry_background                                         *)
(***************************************************************************)
LoopStatus == {"running", "stopped", "none"}

\* the run-once guard (lines 259-260)
already_scheduled_never(flag) == FALSE

already_scheduled(flag) == flag

\* line 261: the flag is set before the event loop is looked at
mark_scheduled_if_started(loopSt) == loopSt # "stopped"

mark_scheduled(loopSt) == TRUE

\* the eager identity call (lines 263-271): made whatever the policy says
eager_ensure_unless_opted_out(e, f, fault, last) ==
  IF env_opt_out(e)
  THEN Ensured(f, uuid4(KnownIds(f, last)), FALSE, "none")
  ELSE ensure_instance_id(f, fault, KnownIds(f, last))

eager_ensure(e, f, fault, last) == ensure_instance_id(f, fault, KnownIds(f, last))

\* try/except Exception around the synchronous fallback (lines 295-298)
fallback_outcome(result) == "returned"

\* loopSt: "running" (get_event_loop returns a running loop), "stopped" (it
\* returns a loop that is not running), "none" (it raises).  fault1 and fault2
\* are the filesystem faults met by the two _ensure_instance_id calls and
\* result is how the synchronous _post_sync ends; the last two are read only
\* on the path taken when get_event_loop raises.
BgStart(loopSt, result, fault1, fault2) ==
  /\ startCalls < MaxCalls
  /\ startCalls' = startCalls + 1
  /\ allRunning' = (allRunning /\ loopSt = "running")
  /\ UNCHANGED <<env, otherVars>>
  /\ IF already_scheduled(HAS_SCHEDULED_SEND)
     THEN /\ bgOutcome' = "returned"
          /\ UNCHANGED <<idVars, HAS_SCHEDULED_SEND, HAS_LOGGED_SCHEDULE, tasks,
                         lastCall, bgAccessible, scheduled>>
     ELSE LET r1 == eager_ensure(env, file, fault1, lastRet)
              r2 == make_payload(r1.file, fault2, r1.ret)
              ps == post_sync(get_endpoint(env))
          IN  /\ HAS_SCHEDULED_SEND' = mark_scheduled(loopSt)
              /\ bgAccessible' = IF startCalls = 0
                                 THEN fault1 \in {"none", "makedirs"}
                                 ELSE bgAccessible
              /\ CASE loopSt = "running" ->
                        /\ HAS_LOGGED_SCHEDULE' = TRUE
                        /\ tasks' = tasks \o <<NewTask("startup"), NewTask("loop")>>
                        /\ scheduled' = [startup |-> scheduled.startup + 1,
                                         loop |-> scheduled.loop + 1]
                        /\ RecordFile(<<r1>>)
                        /\ bgOutcome' = "returned"
                        /\ UNCHANGED lastCall
                   [] loopSt = "stopped" ->
                        /\ RecordFile(<<r1>>)
                        /\ bgOutcome' = "returned"
                        /\ UNCHANGED <<HAS_LOGGED_SCHEDULE, tasks, lastCall,
                                       scheduled>>
                   [] loopSt = "none" ->
                        /\ RecordFile(<<r1, r2>>)
                        /\ lastCall' = [called |-> TRUE, thread |-> "caller",
                                        raised |-> ps.raised,
                                        attempts |-> ps.attempts]
                        /\ bgOutcome' = fallback_outcome(result)
                        /\ UNCHANGED <<HAS_LOGGED_SCHEDULE, tasks, scheduled>>

(***************************************************************************)
(* Coroutines on the event loop                                            *)
(***************************************************************************)
\* the host awaits maybe_send_telemetry_async itself (one such call at a
\* time): the coroutine runs at once, up to its await
DirectSend(fault) ==
  /\ CountKind("direct") = 0
  /\ LET i == Len(tasks) + 1
         ts == Append(tasks, NewTask("direct"))
     IN  IF send_skips(env)
         THEN UNCHANGED <<tasks, idVars>>
         ELSE /\ tasks' = [ts EXCEPT ![i].pc = "awaiting", ![i].job = Dispatch(env)]
              /\ RecordFile(<<make_payload(file, fault, lastRet)>>)
  /\ UNCHANGED <<env, ctlVars, lastCall, otherVars>>

\* the maybe_send_telemetry_async scheduled by ensure_future starts running
SendStart(i, fault) ==
  /\ tasks[i].kind = "startup"
  /\ tasks[i].pc = "pending"
  /\ SendOnce(i, "returned", fault)
  /\ UNCHANGED <<env, ctlVars, lastCall, otherVars>>

\* _periodic_ping_loop starts: lines 242-243, suspended in asyncio.sleep
LoopStart(i) ==
  /\ tasks[i].kind = "loop"
  /\ tasks[i].pc = "pending"
  /\ tasks' = [tasks EXCEPT ![i].pc = "sleeping"]
  /\ UNCHANGED <<env, idVars, ctlVars, lastCall, otherVars>>

\* the sleep ends: lines 244-246; err is an unexpected exception in the tick
LoopWake(i, err, fault) ==
  /\ tasks[i].kind = "loop"
  /\ tasks[i].pc = "sleeping"
  /\ UNCHANGED <<env, ctlVars, lastCall, otherVars>>
  /\ IF err
     THEN /\ tasks' = [tasks EXCEPT ![i].pc = "backoff"]
          /\ UNCHANGED idVars
     ELSE /\ IF env_opt_out(env)
             THEN UNCHANGED <<tasks, idVars>>
             ELSE SendOnce(i, "sleeping", fault)

\* the coroutine of task i resumes from its await (line 209) with the job's
\* result; a task that was cancelled meanwhile is left as it is
Resumed(t, jobState) ==
  IF t.pc # "awaiting" THEN t.pc
  ELSE LET o == await_outcome(jobState)
       IN  IF t.kind = "loop"
           THEN (IF o = "raised" THEN "backoff" ELSE "sleeping")
           ELSE o

\* a worker thread of the default executor starts _post_sync for task i: the
\* Request constructor raises, or urlopen finds no handler, or the POST is sent
PostBegin(i) ==
  /\ tasks[i].job.state = "queued"
  /\ LET ps == post_sync(tasks[i].job.url)
         st == IF ps.raised THEN "raised"
               ELSE IF ps.attempts = 0 THEN post_sync_finish("other")
               ELSE "inflight"
     IN  /\ lastCall' = [called |-> TRUE, thread |-> "worker",
                         raised |-> ps.raised, attempts |-> ps.attempts]
         /\ tasks' = IF st = "inflight"
                     THEN [tasks EXCEPT ![i].job.state = st]
                     ELSE SetPc(tasks, i, Resumed(tasks[i], st))
  /\ UNCHANGED <<env, idVars, ctlVars, otherVars>>

\* urlopen ends with some outcome, _post_sync returns and the awaiting
\* coroutine resumes
PostEnd(i, outcome) ==
  /\ tasks[i].job.state = "inflight"
  /\ tasks' = SetPc(tasks, i, Resumed(tasks[i], post_sync_finish(outcome)))
  /\ UNCHANGED <<env, idVars, ctlVars, lastCall, otherVars>>

\* asyncio.sleep(60) of the error handler ends (lines 249-252)
BackoffDone(i) ==
  /\ tasks[i].kind = "loop"
  /\ tasks[i].pc = "backoff"
  /\ tasks' = [tasks EXCEPT ![i].pc = "sleeping"]
  /\ UNCHANGED <<env, idVars, ctlVars, lastCall, otherVars>>

\* where CancelledError, thrown at the suspension point pc, leaves the loop.
\* Were it an Exception (as before Python 3.8), line 210 would swallow it
\* while the loop awaits the send, and the loop would go on.
cancel_at_swallowed(pc) ==
  IF pc = "awaiting" THEN "sleeping"
  ELSE IF pc = "sleeping" THEN "returned" ELSE "cancelled"

\* CancelledError is a BaseException: line 210 lets it through, line 247
\* catches it and the coroutine returns; thrown into the backoff sleep or into
\* a coroutine that has not started, it ends the task as cancelled
cancel_at(pc) ==
  IF pc \in {"sleeping", "awaiting"} THEN "returned" ELSE "cancelled"

\* the host cancels the loop task: CancelledError at the suspension point.
\* Inside the try of lines 241-248 it is caught and the coroutine returns; in
\* the backoff sleep only Exception is caught and the task ends cancelled.
\* A job that no worker has started is cancelled with the awaiting future.
Cancel(i) ==
  /\ tasks[i].kind = "loop"
  /\ tasks[i].pc \in {"pending", "sleeping", "awaiting", "backoff"}
  /\ tasks' = [tasks EXCEPT
                 ![i].pc = cancel_at(tasks[i].pc),
                 ![i].job = IF tasks[i].job.state = "queued" THEN NoJob
                            ELSE tasks[i].job]
  /\ UNCHANGED <<env, idVars, ctlVars, lastCall, otherVars>>

(***************************************************************************)
(* Environment of the process                                              *)
(***************************************************************************)
MALFORMED_ENDPOINT == <<"collector.example/census">>

EnvDomain == [optout    |-> {Absent, Str(<<"t", "r", "u", "e">>)},
              genOptout |-> {Absent},
              telemetry |-> {Absent},
              endpoint  |-> {Absent, Str(<<>>), Str(MALFORMED_ENDPOINT)}]

EnvChange(var, val) ==
  /\ val # env[var]
  /\ env' = [env EXCEPT ![var] = val]
  /\ UNCHANGED <<idVars, procVars, otherVars>>

\* the process ends and a new one starts on the same state path
Restart ==
  /\ startCalls > 0 \/ tasks # <<>>
  /\ HAS_SCHEDULED_SEND' = FALSE
  /\ HAS_LOGGED_SCHEDULE' = FALSE
  /\ tasks' = <<>>
  /\ lastCall' = NoCall
  /\ startCalls' = 0
  /\ allRunning' = TRUE
  /\ bgOutcome' = "none"
  /\ bgAccessible' = FALSE
  /\ scheduled' = NoneScheduled
  /\ UNCHANGED <<env, idVars, otherVars>>

InitFiles == {NoFile, [exists |-> TRUE, content |-> <<"u", "9", "\n">>]}

DefaultEnv == [optout |-> Absent, genOptout |-> Absent, telemetry |-> Absent,
               endpoint |-> Absent]

\* a process that has just imported the module
InitProcess ==
  /\ HAS_SCHEDULED_SEND = FALSE
  /\ HAS_LOGGED_SCHEDULE = FALSE
  /\ tasks = <<>>
  /\ lastCall = NoCall
  /\ startCalls = 0
  /\ allRunning = TRUE
  /\ bgOutcome = "none"
  /\ bgAccessible = FALSE
  /\ scheduled = NoneScheduled

\* the state path before the first call
InitStore(files) ==
  /\ file \in files
  /\ fileWasAbsent = ~file.exists
  /\ fsEverFailed = FALSE
  /\ writes = 0
  /\ firstRet = <<>>
  /\ lastRet = <<>>
  /\ retsDiffer = FALSE
  /\ ensureCalls = 0
  /\ lastFailed = "none"
  /\ procs = [p \in 1..NumProcs |-> IdleProc]

\* the UTC date and the record of what Transport was handed
InitPayload(days) ==
  /\ today \in days
  /\ sent = {}

\* an executor job on the clock: deadline is when the urlopen timeout expires
IdleJob == [state |-> "none", url |-> <<>>, deadline |-> 0]

\* the clock at one of `starts`, the loop coroutine and the startup send at pc
\* ("pending": scheduled by ensure_future and not yet run; "none": no loop)
InitTimed(starts, pc) ==
  /\ clock \in starts
  /\ lp = [pc |-> pc, wakeAt |-> clock]
  /\ jobs = [startup |-> [IdleJob EXCEPT !.state = pc], loop |-> IdleJob]
  /\ errs = 0
  /\ skipped = FALSE
  /\ lastTarget = -1

Init ==
  /\ env = DefaultEnv
  /\ InitProcess
  /\ InitStore(InitFiles)
  /\ InitPayload({1})
  /\ InitTimed({0}, "none")
  /\ now = 0
  /\ sleep_s = -1
  /\ optOut = "unset"

Next ==
  \/ \E l \in LoopStatus, f1 \in SchedFaults :
       \E r \in (IF l = "none" THEN PostSyncResults(get_endpoint(env))
                              ELSE {"returned"}),
          f2 \in (IF l = "none" THEN SchedFaults ELSE {"none"}) :
            BgStart(l, r, f1, f2)
  \/ \E f \in SchedFaults : DirectSend(f)
  \/ \E i \in 1..Len(tasks), f \in SchedFaults : SendStart(i, f)
  \/ \E i \in 1..Len(tasks) : LoopStart(i)
  \/ \E i \in 1..Len(tasks), err \in BOOLEAN, f \in SchedFaults : LoopWake(i, err, f)
  \/ \E i \in 1..Len(tasks) : PostBegin(i)
  \/ \E i \in 1..Len(tasks), o \in TransportOutcomes : PostEnd(i, o)
  \/ \E i \in 1..Len(tasks) : BackoffDone(i)
  \/ \E i \in 1..Len(tasks) : Cancel(i)
  \/ \E var \in DOMAIN EnvDomain : \E val \in EnvDomain[var] : EnvChange(var, val)
  \/ Restart

Spec == Init /\ [][Next]_vars


(***************************************************************************)
(* _seconds_until_next_even_utc_hour, on a clock of TicksPerSec ticks per   *)
(* second                                                                  *)
(***************************************************************************)
HourTicks == 3600 * TicksPerSec

DayTicks == 24 * HourTicks

\* now.replace(minute=0, second=0, microsecond=0)
HourBase(t) == t - (t % HourTicks)

HourOf(t) == (t \div HourTicks) % 24

next_even_unfloored(t) ==
  LET base == HourBase(t)
      nxt == IF HourOf(base) % 2 = 0 THEN base + 2 * HourTicks
             ELSE base + HourTicks
  IN  nxt - t

\* aims at the even hour itself when called exactly on it
next_even_inclusive(t) ==
  LET base == HourBase(t)
      nxt == IF t <= base
             THEN (IF HourOf(base) % 2 = 0 THEN base ELSE base + HourTicks)
             ELSE (IF HourOf(base) % 2 = 0 THEN base + 2 * HourTicks
                   ELSE base + HourTicks)
  IN  Max(1 * TicksPerSec, nxt - t)

seconds_until_next_even_utc_hour(t) ==
  LET base == HourBase(t)
      nxt == IF t <= base
             THEN (IF HourOf(base) % 2 = 0 THEN base + 2 * HourTicks
                   ELSE base + HourTicks)
             ELSE (IF HourOf(base) % 2 = 0 THEN base + 2 * HourTicks
                   ELSE base + HourTicks)
      delta == nxt - t
  IN  Max(1 * TicksPerSec, delta)

ComputeDelay ==
  /\ sleep_s = -1
  /\ sleep_s' = seconds_until_next_even_utc_hour(now)
  /\ UNCHANGED <<env, idVars, procVars, fileWasAbsent, now, optOut, ensureCalls,
               auxVars>>

InitDelay ==
  /\ env = DefaultEnv
  /\ InitProcess
  /\ InitStore({NoFile})
  /\ InitPayload({1})
  /\ InitTimed({0}, "none")
  /\ now \in 0..(DayTicks - 1)
  /\ sleep_s = -1
  /\ optOut = "unset"

SpecDelay == InitDelay /\ [][ComputeDelay]_vars

(***************************************************************************)
(* _env_opt_out on every assignment of the three policy variables          *)
(***************************************************************************)
\* raw values of a policy variable with the class the documentation gives them
PolicyTable ==
  {[val |-> Absent, cls |-> "absent"],
   [val |-> Str(<<>>), cls |-> "empty"],
   [val |-> Str(<<" ">>), cls |-> "empty"],
   [val |-> Str(<<"1">>), cls |-> "truthy"],
   [val |-> Str(<<"t", "r", "u", "e">>), cls |-> "truthy"],
   [val |-> Str(<<"y", "e", "s">>), cls |-> "truthy"],
   [val |-> Str(<<"o", "n">>), cls |-> "truthy"],
   [val |-> Str(<<"y">>), cls |-> "truthy"],
   [val |-> Str(<<"t">>), cls |-> "truthy"],
   [val |-> Str(<<"T", "r", "u", "e">>), cls |-> "truthy"],
   [val |-> Str(<<" ", "Y", "E", "S", "\n">>), cls |-> "truthy"],
   [val |-> Str(<<"0">>), cls |-> "falsy"],
   [val |-> Str(<<"f", "a", "l", "s", "e">>), cls |-> "falsy"],
   [val |-> Str(<<"n", "o">>), cls |-> "falsy"],
   [val |-> Str(<<"o", "f", "f">>), cls |-> "falsy"],
   [val |-> Str(<<"n">>), cls |-> "falsy"],
   [val |-> Str(<<"f">>), cls |-> "falsy"],
   [val |-> Str(<<"O", "F", "F">>), cls |-> "falsy"],
   [val |-> Str(<<"\t", "F", "a", "l", "s", "e", " ">>), cls |-> "falsy"],
   [val |-> Str(<<"2">>), cls |-> "unrecognized"],
   [val |-> Str(<<"m", "a", "y", "b", "e">>), cls |-> "unrecognized"],
   [val |-> Str(<<"t", "r", "u">>), cls |-> "unrecognized"],
   [val |-> Str(<<"n", " ", "o">>), cls |-> "unrecognized"]}

PolicyValues == {r.val : r \in PolicyTable}

ClassOf(v) == (CHOOSE r \in PolicyTable : r.val = v).cls

EvalOptOut ==
  /\ optOut = "unset"
  /\ optOut' = IF env_opt_out(env) THEN "out" ELSE "in"
  /\ UNCHANGED <<env, idVars, procVars, fileWasAbsent, now, sleep_s, ensureCalls,
               auxVars>>

InitPolicy ==
  /\ env \in [optout : PolicyValues, genOptout : PolicyValues,
              telemetry : PolicyValues, endpoint : {Absent}]
  /\ InitProcess
  /\ InitStore({NoFile})
  /\ InitPayload({1})
  /\ InitTimed({0}, "none")
  /\ now = 0
  /\ sleep_s = -1
  /\ optOut = "unset"

SpecPolicy == InitPolicy /\ [][EvalOptOut]_vars

(***************************************************************************)
(* _ensure_instance_id called again and again on one state path, by one    *)
(* process or by one process after another (the function keeps no state    *)
(* in the process)                                                         *)
(***************************************************************************)
EnsureCall(fault) ==
  /\ ensureCalls < MaxEnsureCalls
  /\ ensureCalls' = ensureCalls + 1
  /\ RecordEnsure(<<ensure_instance_id(file, fault, KnownIds(file, lastRet))>>,
                  <<fault>>)
  /\ UNCHANGED <<env, procVars, fileWasAbsent, now, sleep_s, optOut, procs, payVars,
                 loopVars>>

InitIdentity ==
  /\ env = DefaultEnv
  /\ InitProcess
  /\ InitStore(InitFiles \cup {[exists |-> TRUE, content |-> <<"\n">>]})
  /\ InitPayload({1})
  /\ InitTimed({0}, "none")
  /\ now = 0
  /\ sleep_s = -1
  /\ optOut = "unset"

SpecIdentity == InitIdentity /\ [][\E f \in FsFaults : EnsureCall(f)]_vars


(***************************************************************************)
(* The two call sites of _post_sync, with the arguments they hand over:    *)
(* reports sent one after another on one state path, across midnights      *)
(***************************************************************************)
ALT_ENDPOINT == <<"http", ":", "//collector.example/census">>

\* what _post_sync(url, data) adds to the POSTs issued
Issue(call) == IF post_sync(call.url).attempts >= 1 THEN sent \cup {call} ELSE sent

\* maybe_send_telemetry_async on a running loop (lines 169-209) and the
\* executor's call _post_sync(endpoint, data)
AsyncPost(fault) ==
  /\ Cardinality(sent) < MaxSends
  /\ ~send_skips(env)
  /\ LET r == make_payload(file, fault, lastRet)
         p == payload_fields(r.ret, today)
     IN  /\ RecordEnsure(<<r>>, <<fault>>)
         /\ sent' = Issue(Posted("async", get_endpoint(env), async_body(p), p,
                                 r.ret, today))
  /\ UNCHANGED <<env, procVars, fileWasAbsent, now, sleep_s, optOut, ensureCalls,
                 procs, today, loopVars>>

\* the first maybe_send_telemetry_background of a process in which
\* asyncio.get_event_loop raises (lines 261-271 and 294-298)
SyncPost(fault1, fault2) ==
  /\ Cardinality(sent) < MaxSends
  /\ LET r1 == eager_ensure(env, file, fault1, lastRet)
         r2 == make_payload(r1.file, fault2, r1.ret)
         p == payload_fields(r2.ret, today)
     IN  /\ RecordEnsure(<<r1, r2>>, <<fault1, fault2>>)
         /\ sent' = Issue(Posted("fallback", get_endpoint(env), fallback_body(p),
                                 p, r2.ret, today))
  /\ UNCHANGED <<env, procVars, fileWasAbsent, now, sleep_s, optOut, ensureCalls,
                 procs, today, loopVars>>

\* the UTC date changes
MidnightPasses ==
  /\ today < MaxDay
  /\ today' = today + 1
  /\ UNCHANGED <<env, idVars, procVars, fileWasAbsent, now, sleep_s, optOut,
                 ensureCalls, lastFailed, procs, sent, loopVars>>

InitReports ==
  /\ env \in {DefaultEnv, [DefaultEnv EXCEPT !.endpoint = Str(ALT_ENDPOINT)]}
  /\ InitProcess
  /\ InitStore(InitFiles)
  /\ InitPayload({1})
  /\ InitTimed({0}, "none")
  /\ now = 0
  /\ sleep_s = -1
  /\ optOut = "unset"

NextReports ==
  \/ \E f \in SchedFaults : AsyncPost(f)
  \/ \E f1 \in SchedFaults, f2 \in SchedFaults : SyncPost(f1, f2)
  \/ MidnightPasses

SpecPayload == InitReports /\ [][NextReports]_vars


(***************************************************************************)
(* _ensure_instance_id step by step, run by several processes that share   *)
(* the state path; no filesystem step fails                                *)
(***************************************************************************)
IdsInUse == {Strip(file.content)} \cup {procs[q].id : q \in 1..NumProcs}

RaceUnchanged ==
  UNCHANGED <<env, procVars, fsEverFailed, writes, firstRet, lastRet, retsDiffer,
              fileWasAbsent, now, sleep_s, optOut, lastFailed, payVars,
              loopVars>>

\* line 90: os.path.exists(path); when it is false, line 99 makes the new id
CheckExists(p) ==
  /\ procs[p].pc \in {"idle", "done"}
  /\ ensureCalls < MaxEnsureCalls
  /\ ensureCalls' = ensureCalls + 1
  /\ procs' = [procs EXCEPT ![p] =
                 IF file.exists THEN [pc |-> "reading", id |-> <<>>]
                 ELSE [pc |-> "creating", id |-> uuid4(IdsInUse \ {procs[p].id})]]
  /\ UNCHANGED file
  /\ RaceUnchanged

\* lines 91-98: open for reading, read, strip; a blank file falls through to
\* line 99
ReadFile(p) ==
  /\ procs[p].pc = "reading"
  /\ procs' = [procs EXCEPT ![p] =
                 IF Strip(file.content) # <<>>
                 THEN [pc |-> "done", id |-> Strip(file.content)]
                 ELSE [pc |-> "creating", id |-> uuid4(IdsInUse)]]
  /\ UNCHANGED <<file, ensureCalls>>
  /\ RaceUnchanged

\* lines 101-108: makedirs, then open(path, "w") creates or truncates the file
OpenForWrite(p) ==
  /\ procs[p].pc = "creating"
  /\ file' = [exists |-> TRUE, content |-> <<>>]
  /\ procs' = [procs EXCEPT ![p].pc = "writing"]
  /\ UNCHANGED ensureCalls
  /\ RaceUnchanged

\* lines 109-114: write, close (the buffered text reaches the file), return
WriteAndClose(p) ==
  /\ procs[p].pc = "writing"
  /\ file' = [exists |-> TRUE, content |-> procs[p].id]
  /\ procs' = [procs EXCEPT ![p].pc = "done"]
  /\ UNCHANGED ensureCalls
  /\ RaceUnchanged

InitRace ==
  /\ env = DefaultEnv
  /\ InitProcess
  /\ InitStore(InitFiles)
  /\ InitPayload({1})
  /\ InitTimed({0}, "none")
  /\ now = 0
  /\ sleep_s = -1
  /\ optOut = "unset"

NextRace ==
  \E p \in 1..NumProcs :
    \/ CheckExists(p)
    \/ ReadFile(p)
    \/ OpenForWrite(p)
    \/ WriteAndClose(p)

SpecRace == InitRace /\ [][NextRace]_vars


(***************************************************************************)
(* _periodic_ping_loop and the startup send on a clock, in a process whose *)
(* maybe_send_telemetry_background found a running event loop.  The event  *)
(* loop runs a ready coroutine and the executor starts a queued job before *)
(* time passes; a sleep may end late by any amount.                        *)
(***************************************************************************)
\* _post_sync(url, data, timeout=2.0): seconds
TIMEOUT == 2

\* asyncio.sleep(60) of the error handler: seconds
BACKOFF == 60

\* 00:00:00, 01:30:00, one second before 02:00:00, one tick before 04:00:00
StartTimes == {0, HourTicks + (HourTicks \div 2), 2 * HourTicks - TicksPerSec,
               4 * HourTicks - 1}

\* how long after its timer a sleep may end: on time, a tick late, two hours
\* late (the host was suspended)
Lateness == {0, 1, 2 * HourTicks}

\* the latest even-hour boundary at or before t: the boundary a sleep that
\* ends at t was aimed at
TargetOf(t) == t - (t % (2 * HourTicks))

\* lines 249-252: the except branch of the loop puts it in asyncio.sleep(60)
on_tick_error_exits(t) == [pc |-> "returned", wakeAt |-> t]

on_tick_error(t) == [pc |-> "backoff", wakeAt |-> t + BACKOFF * TicksPerSec]

\* lines 242-243 at time t: compute the delay and sleep; err is an unexpected
\* exception in the computation
enter_tick(t, err) ==
  IF err THEN on_tick_error(t)
  ELSE [pc |-> "sleeping", wakeAt |-> t + seconds_until_next_even_utc_hour(t)]

\* lines 244-245: `continue` when opted out; next is the following iteration
on_opted_out_exits(next) == [pc |-> "returned", wakeAt |-> next.wakeAt]

on_opted_out(next) == next

\* the ways an unexpected exception can hit one pass of the loop body
TickErrors == {"none", "tick", "delay"}

ErrAllowed(err) == err = "none" \/ errs < MaxErrs

Counted(err) == IF err = "none" THEN errs ELSE errs + 1

LoopFrame ==
  UNCHANGED <<env, procVars, fsEverFailed, writes, firstRet, lastRet, retsDiffer,
              fileWasAbsent, now, sleep_s, optOut, ensureCalls, lastFailed, procs,
              payVars>>

\* the startup maybe_send_telemetry_async runs up to its await
TStartupSend(fault) ==
  /\ jobs.startup.state = "pending"
  /\ IF send_skips(env)
     THEN /\ jobs' = [jobs EXCEPT !.startup = IdleJob]
          /\ UNCHANGED file
     ELSE /\ jobs' = [jobs EXCEPT !.startup.state = "queued",
                                  !.startup.url = get_endpoint(env)]
          /\ file' = make_payload(file, fault, lastRet).file
  /\ UNCHANGED <<clock, lp, errs, skipped, lastTarget>>
  /\ LoopFrame

\* _periodic_ping_loop starts: first pass of lines 242-243
TLoopStart(err) ==
  /\ lp.pc = "pending"
  /\ err \in {"none", "delay"}
  /\ ErrAllowed(err)
  /\ lp' = enter_tick(clock, err = "delay")
  /\ errs' = Counted(err)
  /\ UNCHANGED <<file, clock, jobs, skipped, lastTarget>>
  /\ LoopFrame

\* the sleep of line 243 ends at or after its timer: lines 244-246, and for a
\* skipped tick lines 242-243 of the next pass
TLoopWake(err, fault) ==
  /\ lp.pc = "sleeping"
  /\ clock >= lp.wakeAt
  /\ ErrAllowed(err)
  /\ errs' = Counted(err)
  /\ lastTarget' = TargetOf(lp.wakeAt)
  /\ UNCHANGED clock
  /\ LoopFrame
  /\ IF err = "tick"
     THEN /\ lp' = on_tick_error(clock)
          /\ UNCHANGED <<file, jobs, skipped>>
     ELSE IF env_opt_out(env)
     THEN /\ lp' = on_opted_out(enter_tick(clock, err = "delay"))
          /\ skipped' = TRUE
          /\ UNCHANGED <<file, jobs>>
     ELSE IF send_skips(env)
     THEN /\ lp' = enter_tick(clock, err = "delay")
          /\ UNCHANGED <<file, jobs, skipped>>
     ELSE /\ err = "none"
          /\ lp' = [lp EXCEPT !.pc = "awaiting"]
          /\ jobs' = [jobs EXCEPT !.loop.state = "queued",
                                  !.loop.url = get_endpoint(env)]
          /\ file' = make_payload(file, fault, lastRet).file
          /\ UNCHANGED skipped

\* the loop's await of line 246 returns (maybe_send_telemetry_async swallowed
\* whatever _post_sync did): next pass of lines 242-243
Resume(k, err) ==
  IF k = "loop" /\ lp.pc = "awaiting"
  THEN /\ ErrAllowed(err)
       /\ err \in {"none", "delay"}
       /\ lp' = enter_tick(clock, err = "delay")
       /\ errs' = Counted(err)
  ELSE /\ err = "none"
       /\ UNCHANGED <<lp, errs>>

\* a worker starts _post_sync for job k; a call that makes no POST is over at
\* once
TPostBegin(k, err) ==
  /\ jobs[k].state = "queued"
  /\ IF post_sync(jobs[k].url).attempts >= 1
     THEN /\ jobs' = [jobs EXCEPT ![k].state = "inflight",
                                  ![k].deadline = clock + TIMEOUT * TicksPerSec]
          /\ err = "none"
          /\ UNCHANGED <<lp, errs>>
     ELSE /\ jobs' = [jobs EXCEPT ![k] = IdleJob]
          /\ Resume(k, err)
  /\ UNCHANGED <<file, clock, skipped, lastTarget>>
  /\ LoopFrame

\* urlopen ends, by its deadline at the latest; _post_sync returns
TPostEnd(k, outcome, err) ==
  /\ jobs[k].state = "inflight"
  /\ post_sync_finish(outcome) = "returned"
  /\ jobs' = [jobs EXCEPT ![k] = IdleJob]
  /\ Resume(k, err)
  /\ UNCHANGED <<file, clock, skipped, lastTarget>>
  /\ LoopFrame

\* asyncio.sleep(60) ends: next pass of lines 242-243
TBackoffDone(err) ==
  /\ lp.pc = "backoff"
  /\ clock >= lp.wakeAt
  /\ err \in {"none", "delay"}
  /\ ErrAllowed(err)
  /\ lp' = enter_tick(clock, err = "delay")
  /\ errs' = Counted(err)
  /\ UNCHANGED <<file, clock, jobs, skipped, lastTarget>>
  /\ LoopFrame

Deadlines == {jobs[k].deadline : k \in {j \in DOMAIN jobs : jobs[j].state = "inflight"}}

\* the instants at which something can happen next
Instants ==
  Deadlines \cup (IF lp.pc \in {"sleeping", "backoff"}
                  THEN {lp.wakeAt + l : l \in Lateness} ELSE {})

\* time passes up to instant t
Advance(t) ==
  /\ t > clock
  /\ clock < DayTicks
  /\ \A d \in Deadlines : t <= d
  /\ lp.pc # "pending"
  /\ \A k \in DOMAIN jobs : jobs[k].state \notin {"pending", "queued"}
  /\ clock' = t
  /\ UNCHANGED <<file, lp, jobs, errs, skipped, lastTarget>>
  /\ LoopFrame

\* a day has gone by: every time is kept relative to the latest midnight
DateRollsOver ==
  /\ clock >= DayTicks
  /\ clock' = clock - DayTicks
  /\ lp' = [lp EXCEPT !.wakeAt = @ - DayTicks]
  /\ jobs' = [k \in DOMAIN jobs |->
                IF jobs[k].state = "inflight"
                THEN [jobs[k] EXCEPT !.deadline = @ - DayTicks] ELSE jobs[k]]
  /\ lastTarget' = IF lastTarget = -1 THEN -1 ELSE lastTarget - DayTicks
  /\ UNCHANGED <<file, errs, skipped>>
  /\ LoopFrame

OptOutOn == [DefaultEnv EXCEPT !.optout = Str(<<"t", "r", "u", "e">>)]

\* the operator sets or clears the opt-out variable
TEnvChange(val) ==
  /\ val \in {DefaultEnv.optout, OptOutOn.optout}
  /\ EnvChange("optout", val)

InitLoop ==
  /\ env \in {DefaultEnv, OptOutOn}
  /\ InitProcess
  /\ InitStore(InitFiles)
  /\ InitPayload({1})
  /\ InitTimed(StartTimes, "pending")
  /\ now = 0
  /\ sleep_s = -1
  /\ optOut = "unset"

LoopProgress ==
  \/ \E f \in SchedFaults : TStartupSend(f)
  \/ \E e \in TickErrors : TLoopStart(e)
  \/ \E e \in TickErrors, f \in SchedFaults : TLoopWake(e, f)
  \/ \E k \in DOMAIN jobs, e \in TickErrors : TPostBegin(k, e)
  \/ \E k \in DOMAIN jobs, o \in TransportOutcomes, e \in TickErrors :
       TPostEnd(k, o, e)
  \/ \E e \in TickErrors : TBackoffDone(e)
  \/ \E t \in Instants : Advance(t)
  \/ DateRollsOver

NextLoop ==
  \/ \E f \in SchedFaults : TStartupSend(f)
  \/ \E e \in TickErrors : TLoopStart(e)
  \/ \E e \in TickErrors, f \in SchedFaults : TLoopWake(e, f)
  \/ \E k \in DOMAIN jobs, e \in TickErrors : TPostBegin(k, e)
  \/ \E k \in DOMAIN jobs, o \in TransportOutcomes, e \in TickErrors :
       TPostEnd(k, o, e)
  \/ \E e \in TickErrors : TBackoffDone(e)
  \/ \E t \in Instants : Advance(t)
  \/ DateRollsOver
  \/ \E val \in EnvDomain.optout : TEnvChange(val)

\* the event loop and the executor keep running and time keeps passing; the
\* operator may change the environment or not
SpecLoop == InitLoop /\ [][NextLoop]_vars /\ WF_vars(LoopProgress)


(***************************************************************************)
(* Properties                                                              *)
(***************************************************************************)
NumQueued(ts) == Cardinality({i \in 1..Len(ts) : ts[i].job.state = "queued"})

\* this step hands a report to run_in_executor
Dispatched == NumQueued(tasks') > NumQueued(tasks)

\* this step is a maybe_send_telemetry_background call that POSTs synchronously
SyncPosted ==
  /\ lastCall'.thread = "caller"
  /\ lastCall.thread # "caller"
  /\ lastCall'.attempts >= 1

\* C1: no step dispatches a report (to the executor, or synchronously from
\* maybe_send_telemetry_background) while _env_opt_out() is true.
C1_NoPostWhenOptedOut ==
  [][(Dispatched \/ SyncPosted) => ~env_opt_out(env)]_vars

\* C2: after any number n >= 1 of maybe_send_telemetry_background calls that all
\* found a running loop, exactly one periodic loop task and one startup send
\* have been scheduled, and every call after the first leaves the flags, the
\* tasks, the state file and the transport untouched.
C2_OneLoopOneSend ==
  /\ []((startCalls >= 1 /\ allRunning)
          => (scheduled.loop = 1 /\ scheduled.startup = 1))
  /\ [][(startCalls' = startCalls + 1 /\ startCalls >= 1 /\ allRunning')
          => UNCHANGED <<HAS_SCHEDULED_SEND, HAS_LOGGED_SCHEDULE, scheduled,
                         tasks, file, lastCall>>]_vars

C2_Witness ==
  /\ startCalls = MaxCalls
  /\ allRunning
  /\ scheduled.loop = 1
  /\ \E i \in 1..Len(tasks) : tasks[i].kind = "loop" /\ tasks[i].pc = "sleeping"

\* C3: whatever fails (state file, transport, endpoint URL, event loop), no
\* maybe_send_telemetry_background call and no maybe_send_telemetry_async
\* coroutine ends by raising, and the loop task never ends with an exception.
C3_NothingRaises ==
  /\ bgOutcome # "raised"
  /\ \A i \in 1..Len(tasks) : tasks[i].pc # "raised"

\* the synchronous path met a write failure and a malformed endpoint (the
\* Request constructor raised inside _post_sync) and the call still returned
C3_Witness ==
  /\ bgOutcome = "returned"
  /\ lastCall.thread = "caller"
  /\ lastCall.raised
  /\ file.exists
  /\ file.content = <<>>

\* C4: no call of _post_sync raises, and none makes more than one POST attempt.
C4_TransportNeverRaises ==
  lastCall.called => (~lastCall.raised /\ lastCall.attempts <= 1)

\* C5: every POST runs on an executor worker thread, never on the thread that
\* called maybe_send_telemetry_background.
C5_PostOnWorkerOnly == lastCall.attempts >= 1 => lastCall.thread = "worker"

\* C6: while TELEMETRY_ENDPOINT is set to the empty string no
\* maybe_send_telemetry_async (direct, startup or periodic) dispatches a report.
C6_EmptyOverrideDisables == [][Dispatched => ~OverrideEmpty(env)]_vars

\* the even-hour boundaries of the day and the midnight that ends it
EvenBoundaries == {k * 2 * HourTicks : k \in 0..12}

\* the earliest even-hour boundary strictly later than t
NextEvenAfter(t) ==
  CHOOSE b \in EvenBoundaries :
    b > t /\ \A c \in EvenBoundaries : c > t => b <= c

\* C7: the delay is between 1 and 7200 seconds; when the next even-hour
\* boundary is at least 1 second away the delay ends exactly on it; at an even
\* hour exactly the delay is two hours; in an odd hour H it ends at (H+1):00:00;
\* a delay below one second is raised to one second.
C7_DelayToNextEvenHour ==
  sleep_s # -1 =>
    /\ sleep_s >= 1 * TicksPerSec
    /\ sleep_s <= 7200 * TicksPerSec
    /\ NextEvenAfter(now) - now >= TicksPerSec
         => now + sleep_s = NextEvenAfter(now)
    /\ now % (2 * HourTicks) = 0 => sleep_s = 2 * HourTicks
    /\ HourOf(now) % 2 = 1 => now + sleep_s >= HourBase(now) + HourTicks
    /\ (HourOf(now) % 2 = 1 /\ HourBase(now) + HourTicks - now >= TicksPerSec)
         => now + sleep_s = HourBase(now) + HourTicks
    /\ NextEvenAfter(now) - now < TicksPerSec => sleep_s = 1 * TicksPerSec

\* 03:59:59 and a fraction: the boundary is under a second away
C7_Witness ==
  /\ now = 4 * HourTicks - 1
  /\ TicksPerSec > 1
  /\ sleep_s = TicksPerSec

\* C8: from an absent state file and with no filesystem failure, however many
\* calls are made the file is written exactly once and every call returns the
\* same identifier, which is the trimmed content of the file.
C8_CreatedOnceAndStable ==
  (fileWasAbsent /\ ~fsEverFailed /\ ensureCalls >= 1) =>
    /\ writes = 1
    /\ ~retsDiffer
    /\ lastRet = firstRet
    /\ file.exists
    /\ Strip(file.content) = firstRet
    /\ firstRet # <<>>

C8_Witness ==
  /\ fileWasAbsent
  /\ ~fsEverFailed
  /\ ensureCalls >= 3
  /\ writes = 1
  /\ lastRet = file.content

\* C9: once the first maybe_send_telemetry_background call has returned, and
\* no read or write of the state path failed in it, the state file exists and
\* holds a non-empty identifier, whatever the opt-out variables, the endpoint
\* and the event loop are.
C9_IdentityPersistedAtStart ==
  (startCalls >= 1 /\ bgAccessible) =>
    (file.exists /\ Strip(file.content) # <<>>)

\* opted out, empty endpoint override, no task scheduled (no running loop),
\* and the file that was absent now holds an identifier
C9_Witness ==
  /\ startCalls = 1
  /\ bgAccessible
  /\ env_opt_out(env)
  /\ OverrideEmpty(env)
  /\ scheduled.loop = 0
  /\ fileWasAbsent
  /\ file.exists
  /\ Strip(file.content) # <<>>

\* C10: _env_opt_out() is true exactly when the project opt-out variable is
\* truthy, or TELEMETRY_OPTOUT is truthy, or TELEMETRY is falsy.
C10_OptOutExactly ==
  optOut # "unset" =>
    ((optOut = "out") <=>
       \/ ClassOf(env.optout) = "truthy"
       \/ ClassOf(env.genOptout) = "truthy"
       \/ ClassOf(env.telemetry) = "falsy")

\* a falsy opt-out variable and a truthy TELEMETRY do not opt out
C10_Witness ==
  /\ optOut = "in"
  /\ ClassOf(env.optout) = "falsy"
  /\ ClassOf(env.genOptout) = "unrecognized"
  /\ ClassOf(env.telemetry) = "truthy"

\* needle occurs in hay as a contiguous run
Contains(hay, needle) ==
  \E i \in 1..(Len(hay) - Len(needle) + 1) :
    SubSeq(hay, i, i + Len(needle) - 1) = needle

\* C11: in every POST, by either call site, the id field is the hash of the
\* identifier _ensure_instance_id returned for that payload, count is 1, the
\* body is the serialisation of those fields, and neither a field, nor the
\* body, nor the URL equals or contains the raw identifier.
C11_OnlyHashLeaves ==
  \A c \in sent :
    /\ c.fields.id = hash_id(c.rid)
    /\ c.fields.count = 1
    /\ c.data \in {async_body(c.fields), fallback_body(c.fields)}
    /\ Contains(c.data, hash_id(c.rid))
    /\ ~Contains(c.data, c.rid)
    /\ ~Contains(c.url, c.rid)
    /\ \A v \in {c.fields.id, c.fields.date, c.fields.projectname,
                 c.fields.project} : v # c.rid /\ ~Contains(v, c.rid)

\* both call sites have posted, one with the persisted identifier and one
\* with an ephemeral identifier
C11_Witness ==
  /\ \E c \in sent : c.path = "async" /\ c.rid = Strip(file.content)
  /\ \E c \in sent : c.path = "fallback" /\ c.rid # Strip(file.content)

\* the compact JSON object of the wire format
CompactForm(p) ==
  <<"{", "\"", "id", "\"", ":", "\"">> \o p.id
    \o <<"\"", ",", "\"", "date", "\"", ":", "\"">> \o p.date
    \o <<"\"", ",", "\"", "projectname", "\"", ":", "\"">> \o p.projectname
    \o <<"\"", ",", "\"", "project", "\"", ":", "\"">> \o p.project
    \o <<"\"", ",", "\"", "count", "\"", ":", "1", "}">>

\* C12: two POSTs built from the same identifier on the same UTC date carry
\* the same body bytes, whichever call site made them, and every body is the
\* compact JSON object with the keys id, date, projectname, project, count.
C12_BodyReproducible ==
  /\ \A a \in sent, b \in sent :
       (a.rid = b.rid /\ a.day = b.day) => a.data = b.data
  /\ \A c \in sent : c.data = CompactForm(c.fields)

\* C13: whatever the interleaving of the processes' steps, once the state
\* file holds a non-empty identifier no step changes the file.
C13_WinnerIsKept == [][Strip(file.content) # <<>> => file' = file]_vars

\* the _ensure_instance_id call of this step met a failing filesystem step
EnsureFailedAt(steps) ==
  ensureCalls' = ensureCalls + 1 /\ lastFailed' \in steps

\* C14: a call in which a filesystem step fails (existence check, open for
\* reading, read, open for writing, write, close) returns a non-empty
\* identifier that is neither the content of the file before the call nor the
\* value the previous call returned, and that is not the content of the
\* state file after it; a call in which only os.makedirs fails still writes
\* the file and returns what it wrote.
C14_FailureGivesEphemeral ==
  /\ [][EnsureFailedAt(FsFaults \ {"none", "makedirs"}) =>
          /\ lastRet' # <<>>
          /\ lastRet' \notin {Strip(file.content), lastRet}
          /\ lastRet' # Strip(file'.content)]_vars
  /\ [][EnsureFailedAt({"makedirs"}) =>
          /\ file'.exists
          /\ lastRet' # <<>>
          /\ lastRet' = Strip(file'.content)]_vars

\* this step is the loop waking from the sleep of line 243
WakeStep == lp.pc = "sleeping" /\ clock' = clock /\ lp' # lp

\* this step raised an unexpected error in the loop
ErrorStep == errs' = errs + 1

\* C15: every wake of the loop decides on the opt-out value of the
\* environment at that instant.  A wake that finds it set queues no job and
\* leaves the loop sleeping towards a later boundary (or, after an error, in
\* the backoff sleep); a wake that finds it clear queues the report and awaits
\* it, whatever earlier wakes found.
C15_DecisionAtEachWake ==
  /\ [][(WakeStep /\ env_opt_out(env)) =>
          /\ jobs' = jobs
          /\ lp'.pc \in {"sleeping", "backoff"}
          /\ lp'.wakeAt > clock
          /\ lp'.pc = "sleeping" => TargetOf(lp'.wakeAt) > TargetOf(lp.wakeAt)]_vars
  /\ [][(WakeStep /\ ~env_opt_out(env) /\ ~ErrorStep) =>
          /\ lp'.pc = "awaiting"
          /\ jobs.loop.state = "none"
          /\ jobs'.loop.state = "queued"]_vars

\* the POST of a tick is on its way in a loop that skipped an earlier tick
C15_Witness ==
  /\ skipped
  /\ ~env_opt_out(env)
  /\ lp.pc = "awaiting"
  /\ jobs.loop.state = "inflight"

\* C16: without cancellation the loop never ends; an unexpected error puts it
\* in a sleep of exactly 60 seconds; that sleep is left only once the 60
\* seconds are over, into the delay computation (which sleeps towards a
\* boundary, or fails into a new backoff); and the loop wakes from a boundary
\* sleep infinitely often.
C16_BackoffAndLiveness ==
  /\ [](lp.pc \in {"pending", "sleeping", "awaiting", "backoff"})
  /\ [][ErrorStep =>
          /\ lp'.pc = "backoff"
          /\ lp'.wakeAt = clock + 60 * TicksPerSec
          /\ jobs'.loop.state = "none"]_vars
  /\ [][(lp.pc = "backoff" /\ lp' # lp /\ clock' = clock) =>
          /\ clock >= lp.wakeAt
          /\ lp'.pc \in {"sleeping", "backoff"}
          /\ lp'.wakeAt > clock]_vars
  /\ []<><<WakeStep>>_vars

\* after an error the loop sends again
C16_Witness ==
  /\ errs >= 1
  /\ lastTarget # -1
  /\ lp.pc = "awaiting"
  /\ jobs.loop.state = "inflight"

\* C18: the POST of the startup send and the POST of a periodic tick are
\* never in flight together, and no tick starts while the loop's own job is
\* unfinished.
C18_OnePostInFlight ==
  /\ ~(jobs.startup.state = "inflight" /\ jobs.loop.state = "inflight")
  /\ lp.pc \in {"sleeping", "backoff"} => jobs.loop.state = "none"

\* this step puts the loop in a sleep towards a boundary
SleepStep == lp'.pc = "sleeping" /\ lp' # lp /\ clock' = clock

\* this step queues a periodic report
TickSendStep == jobs'.loop.state = "queued" /\ jobs.loop.state # "queued"

\* C19: every sleep of the loop ends within a second after an even-hour
\* boundary that is later than the current time and later than the boundary of
\* the sleep it last woke from; a periodic report is queued only by a wake, and
\* only for a boundary later than that of the previous wake.
C19_TargetsIncrease ==
  /\ [][SleepStep =>
          /\ lp'.wakeAt > clock
          /\ TargetOf(lp'.wakeAt) > clock
          /\ lp'.wakeAt - TargetOf(lp'.wakeAt) < TicksPerSec
          /\ TargetOf(lp'.wakeAt) > lastTarget'
          /\ lp.pc = "sleeping" => TargetOf(lp'.wakeAt) > TargetOf(lp.wakeAt)]_vars
  /\ [][TickSendStep =>
          /\ WakeStep
          /\ TargetOf(lp.wakeAt) > lastTarget]_vars
  /\ [][WakeStep => (clock >= TargetOf(lp.wakeAt)
                       /\ lastTarget' = TargetOf(lp.wakeAt)
                       /\ lastTarget' > lastTarget)]_vars

\* the loop woke two hours late, at the following boundary exactly, and
\* sleeps towards the one after it: no report for the boundary it missed
C19_Witness ==
  /\ lp.pc = "sleeping"
  /\ lastTarget # -1
  /\ clock = lastTarget + 2 * HourTicks
  /\ lp.wakeAt = clock + 2 * HourTicks
  /\ jobs.loop.state = "none"

\* the loop tasks of the process
LoopTasks(ts) == {ts[i] : i \in {j \in 1..Len(ts) : ts[j].kind = "loop"}}

Suspended == {"sleeping", "awaiting", "backoff"}

Terminated == {"returned", "cancelled"}

RestartStep == startCalls' = 0 /\ tasks' = <<>> /\ ~HAS_SCHEDULED_SEND'

\* C20: after the first maybe_send_telemetry_background call the flag is set,
\* whatever the call found, and stays set for the life of the process; every
\* later call changes nothing; tasks are scheduled by the first call or never.
C20_FlagSetFirstAndForGood ==
  /\ [](startCalls >= 1 => HAS_SCHEDULED_SEND)
  /\ [][(HAS_SCHEDULED_SEND /\ ~HAS_SCHEDULED_SEND') => RestartStep]_vars
  /\ [][(startCalls' = startCalls + 1 /\ startCalls >= 1) =>
          UNCHANGED <<HAS_SCHEDULED_SEND, HAS_LOGGED_SCHEDULE, scheduled, tasks,
                      idVars, lastCall, bgAccessible>>]_vars
  /\ [][scheduled' # scheduled =>
          (RestartStep \/ (startCalls = 0 /\ startCalls' = 1))]_vars
  /\ []((scheduled = NoneScheduled /\ startCalls >= 1) =>
          \A i \in 1..Len(tasks) : tasks[i].kind = "direct")

\* the first call found a loop that was not running: two calls later there is
\* still no task and no POST was made
C20_Witness ==
  /\ startCalls = MaxCalls
  /\ HAS_SCHEDULED_SEND
  /\ scheduled = NoneScheduled
  /\ tasks = <<>>
  /\ lastCall = NoCall

====
